---- MODULE Spec2Model ----
(***************************************************************************)
(* Model of src/datasetgeneration.py: the quota-driven, resumable          *)
(* generation loop, the replay of an existing output file at startup, and  *)
(* generate_dialogue (validation of the parsed model output, fallback).    *)
(*                                                                         *)
(* Python values are modelled as follows.  None and every dict or list is  *)
(* a record with a field py ("None", "dict", "list", ...); a dict holds    *)
(* one further field per key it has, so `k in d` is k \in DOMAIN d.        *)
(* Strings and integers are TLA+ strings and integers.                     *)
(*                                                                         *)
(* The output file is a sequence of lines.  A line of kind "rec" is the    *)
(* text json.dumps wrote for one record; the model keeps of that text the  *)
(* keys the replay and the identifiers depend on.  A line of kind "junk"   *)
(* is text json.loads rejects; a line of kind "badutf" is a run of bytes   *)
(* that stops inside a multi-byte character, which the text reader cannot  *)
(* decode.  open_tail says that the last line has no newline yet.          *)
(***************************************************************************)
EXTENDS Integers, Sequences, FiniteSets, TLC

\* ------------------------------------------------------------------------
\* Bounds of the model
\* ------------------------------------------------------------------------
\* The smaller of the two per-cell quotas of DISTRIBUTION (33 in the source;
\* the larger one, 34, is BaseQuota + 1).
BaseQuota == 1
\* Number of case indices reserved per language (400 in the source).
RangeLen == 1
\* Number of kills that hit the process while it writes a line, so that a
\* part of the line reaches the file.  Kills at other points and further
\* runs on the same file are not bounded.
MaxTornWrites == 1
\* Length of the texts safe_parse_json is called on, all of them up to it.
MaxTextLen == 4
\* Number of members of the JSON objects whose texts it is called on.
MaxMembers == 2
\* Number of request outcomes drawn for one call of the generation client.
MaxRequests == 4
\* Largest number of exchanges create_fallback_dialogue is called with (6 is
\* the largest a bucket asks for).
MaxExchanges == 6

\* ------------------------------------------------------------------------
\* CONFIG
\* ------------------------------------------------------------------------
None == [py |-> "None"]
Raised == [py |-> "raise"]

LanguageNames == <<"hindi", "english", "code_mixed">>
Languages == {LanguageNames[i] : i \in 1..Len(LanguageNames)}

COMPLEXITY_LEVELS == <<"layman", "intermediate", "professional">>
BucketKeys == <<"A", "B", "C", "D">>
BUCKETS == [A |-> <<2, 3>>, B |-> <<3, 4>>, C |-> <<4, 5>>, D |-> <<5, 6>>]

InSeq(x, s) == \E i \in 1..Len(s) : s[i] = x

\* The cells whose quota is the larger one (34 in the source).
LargerQuota ==
  { <<"hindi", "layman", "C">>, <<"hindi", "intermediate", "A">>,
    <<"hindi", "professional", "B">>,
    <<"english", "layman", "B">>, <<"english", "intermediate", "C">>,
    <<"english", "professional", "A">>, <<"english", "professional", "D">>,
    <<"code_mixed", "layman", "A">>, <<"code_mixed", "intermediate", "D">>,
    <<"code_mixed", "professional", "B">>, <<"code_mixed", "professional", "C">> }

AllCells == { <<l, c, b>> : l \in Languages,
                            c \in {"layman", "intermediate", "professional"},
                            b \in {"A", "B", "C", "D"} }

DISTRIBUTION ==
  [k \in AllCells |-> IF k \in LargerQuota THEN BaseQuota + 1 ELSE BaseQuota]

\* 400 in the source: twelve cells of 33 and four more.
SAMPLES_PER_LANGUAGE == 12 * BaseQuota + 4
\* A total that is one short of the per-language number.
TARGET_SAMPLES_OneShort == SAMPLES_PER_LANGUAGE - 1
TARGET_SAMPLES == SAMPLES_PER_LANGUAGE

LangNo(l) == CHOOSE i \in 1..Len(LanguageNames) : LanguageNames[i] = l
CASE_RANGES(l) == <<(LangNo(l) - 1) * RangeLen, LangNo(l) * RangeLen>>

\* The keys of DISTRIBUTION_FILTERED in their declaration order:
\* complexity-major, bucket-minor.
CellOrder(l) ==
  [i \in 1..(Len(COMPLEXITY_LEVELS) * Len(BucketKeys)) |->
     <<l, COMPLEXITY_LEVELS[((i - 1) \div Len(BucketKeys)) + 1],
          BucketKeys[((i - 1) % Len(BucketKeys)) + 1]>>]

DISTRIBUTION_FILTERED(l) == [k \in {k \in AllCells : k[1] = l} |-> DISTRIBUTION[k]]

RECURSIVE SumSeq(_, _)
SumSeq(f, s) == IF Len(s) = 0 THEN 0 ELSE f[Head(s)] + SumSeq(f, Tail(s))

\* A total that starts at 0 whatever the counts are.
SumCounts_Zero(counts, l) == 0

\* sum(distribution_counts.get((CURRENT_LANGUAGE, c, b), 0) for c ... for b ...)
SumCounts(counts, l) == SumSeq(counts, CellOrder(l))

\* ------------------------------------------------------------------------
\* Python dicts, lists and truth values
\* ------------------------------------------------------------------------
EmptyDict == [py |-> "dict"]
List(items) == [py |-> "list", items |-> items]
PyInt(n) == [py |-> "int", val |-> n]

Has(d, k) == k \in DOMAIN d
SetKey(d, k, v) == [x \in DOMAIN d \cup {k} |-> IF x = k THEN v ELSE d[x]]
DelKey(d, k) == [x \in DOMAIN d \ {k} |-> d[x]]
Get(d, k, default) == IF Has(d, k) THEN d[k] ELSE default

IsDict(v) == v.py = "dict"
\* bool(v) for the values the model holds in data, data["turns"] and result
Truthy(v) ==
  CASE v.py = "None" -> FALSE
    [] v.py = "dict" -> DOMAIN v # {"py"}
    [] v.py = "list" -> Len(v.items) > 0
    [] v.py = "int" -> v.val # 0
    [] OTHER -> TRUE

\* ------------------------------------------------------------------------
\* GENERATE
\* ------------------------------------------------------------------------
\* A text is a sequence of characters.  The model writes the characters the
\* parser tells apart: "{", "}", ",", "q" (a double quote), "a" (a digit or a
\* letter), "w" (a space), "n" (a newline), "f" (a fence of three backticks),
\* "j" (the word json) and "c" (two slashes).  The members of an object are
\* written without their keys, and a run of "a" outside a string is a number.
Alphabet == {"{", "}", ",", "q", "a", "w", "n", "f", "j", "c"}

IsSpace(ch) == ch \in {"w", "n"}

\* The least element of a non-empty set of numbers.
Least(S) == CHOOSE x \in S : \A y \in S : x <= y
Greatest(S) == CHOOSE x \in S : \A y \in S : x >= y

\* text.strip()
strip(text) ==
  LET keep == {i \in 1..Len(text) : ~IsSpace(text[i])}
  IN  IF keep = {} THEN <<>> ELSE SubSeq(text, Least(keep), Greatest(keep))

\* text.find(ch): 0 when ch is not in the text
find(text, ch) ==
  LET at == {i \in 1..Len(text) : text[i] = ch}
  IN  IF at = {} THEN 0 ELSE Least(at)

\* text.rfind(ch)
rfind(text, ch) ==
  LET at == {i \in 1..Len(text) : text[i] = ch}
  IN  IF at = {} THEN 0 ELSE Greatest(at)

\* ---- json.loads ----
JSONDecodeError == [py |-> "JSONDecodeError"]
Str(chars) == [py |-> "str", chars |-> chars]
Obj(members) ==
  IF Len(members) = 0 THEN EmptyDict ELSE [py |-> "dict", members |-> members]

NoParse == [ok |-> FALSE]

RECURSIVE SkipSpace(_, _)
SkipSpace(t, i) == IF i <= Len(t) /\ IsSpace(t[i]) THEN SkipSpace(t, i + 1) ELSE i

RECURSIVE EndOfRun(_, _)
EndOfRun(t, i) == IF i <= Len(t) /\ t[i] = "a" THEN EndOfRun(t, i + 1) ELSE i

RECURSIVE ParseValue(_, _)
RECURSIVE ParseMembers(_, _, _)

\* One JSON value from position i on: an object, a string (no raw control
\* character inside) or a literal.
ParseValue(t, i) ==
  LET k == SkipSpace(t, i)
  IN  IF k > Len(t) THEN NoParse
      ELSE IF t[k] = "{" THEN
             LET m == SkipSpace(t, k + 1)
             IN  IF m <= Len(t) /\ t[m] = "}"
                 THEN [ok |-> TRUE, val |-> Obj(<<>>), pos |-> m + 1]
                 ELSE ParseMembers(t, m, <<>>)
      ELSE IF t[k] = "q" THEN
             LET closing == {x \in (k + 1)..Len(t) : t[x] = "q"}
             IN  IF closing = {} THEN NoParse
                 ELSE LET e == Least(closing)
                      IN  IF \E x \in (k + 1)..(e - 1) : t[x] = "n" THEN NoParse
                          ELSE [ok |-> TRUE, val |-> Str(SubSeq(t, k + 1, e - 1)),
                                pos |-> e + 1]
      ELSE IF t[k] = "a" THEN
             [ok |-> TRUE, val |-> PyInt(EndOfRun(t, k) - k), pos |-> EndOfRun(t, k)]
      ELSE NoParse

\* The members of an object after its "{" and the members in acc: a value,
\* then "," and more members, or "}".
ParseMembers(t, i, acc) ==
  LET v == ParseValue(t, i)
  IN  IF ~v.ok THEN NoParse
      ELSE LET k == SkipSpace(t, v.pos)
           IN  IF k > Len(t) THEN NoParse
               ELSE IF t[k] = "}"
                    THEN [ok |-> TRUE, val |-> Obj(Append(acc, v.val)), pos |-> k + 1]
               ELSE IF t[k] = ","
                    THEN ParseMembers(t, k + 1, Append(acc, v.val))
               ELSE NoParse

\* json.loads(text): the value, or JSONDecodeError when it raises.
json_loads(t) ==
  LET v == ParseValue(t, 1)
  IN  IF v.ok /\ SkipSpace(t, v.pos) > Len(t) THEN v.val ELSE JSONDecodeError

\* ---- clean_json_text ----
\* re.sub(r'[\x00-\x1f]+', '', json_text)
RECURSIVE RemoveControl(_)
RemoveControl(t) ==
  IF Len(t) = 0 THEN <<>>
  ELSE IF Head(t) = "n" THEN RemoveControl(Tail(t))
       ELSE <<Head(t)>> \o RemoveControl(Tail(t))

\* re.sub(r',\s*([}\]])', r'\1', json_text)
RECURSIVE RemoveTrailingCommas(_, _)
RemoveTrailingCommas(t, i) ==
  IF i > Len(t) THEN <<>>
  ELSE LET k == SkipSpace(t, i + 1)
       IN  IF t[i] = "," /\ k <= Len(t) /\ t[k] = "}"
           THEN <<"}">> \o RemoveTrailingCommas(t, k + 1)
           ELSE <<t[i]>> \o RemoveTrailingCommas(t, i + 1)

\* re.sub(r'//.*?$', '', json_text, flags=re.MULTILINE): to the end of the
\* line, which no control character ends any more.
RemoveComments(t) ==
  IF find(t, "c") = 0 THEN t ELSE SubSeq(t, 1, find(t, "c") - 1)

\* The texts of the model hold no single quote and no "/*": lines 641, 642
\* and 646 leave them as they are.
clean_json_text(json_text) ==
  RemoveComments(RemoveTrailingCommas(RemoveControl(json_text), 1))

\* ---- safe_parse_json ----
NoMatch == [py |-> "NoMatch"]

\* The text behind position e is whitespace and then a fence.
FenceFollows(text, e) ==
  LET k == SkipSpace(text, e + 1) IN k <= Len(text) /\ text[k] = "f"

\* The match of a code block pattern that starts at the fence at i: group 1,
\* or NoMatch.  (?:json)? is there when with_json.
CodeBlockAt(text, i, with_json) ==
  LET k0 == IF with_json /\ i + 1 <= Len(text) /\ text[i + 1] = "j" THEN i + 2
            ELSE i + 1
      k == SkipSpace(text, k0)
      ends == {e \in (k + 1)..Len(text) : text[e] = "}" /\ FenceFollows(text, e)}
  IN  IF k <= Len(text) /\ text[k] = "{" /\ ends # {}
      THEN SubSeq(text, k, Least(ends))
      ELSE NoMatch

\* re.search(pattern, text, re.DOTALL).group(1): the leftmost match.
CodeBlock(text, with_json) ==
  LET starts == {i \in 1..Len(text) :
                   text[i] = "f" /\ CodeBlockAt(text, i, with_json) # NoMatch}
  IN  IF starts = {} THEN NoMatch ELSE CodeBlockAt(text, Least(starts), with_json)

\* Lines 586-600: the text from the first "{" to the "}" that brings the
\* count of braces back to 0.
RECURSIVE BalancedEnd(_, _, _)
BalancedEnd(text, i, brace_count) ==
  IF i > Len(text) THEN 0
  ELSE IF text[i] = "{" THEN BalancedEnd(text, i + 1, brace_count + 1)
  ELSE IF text[i] = "}"
       THEN IF brace_count - 1 = 0 THEN i
            ELSE BalancedEnd(text, i + 1, brace_count - 1)
  ELSE BalancedEnd(text, i + 1, brace_count)

Balanced(text) ==
  LET start == find(text, "{")
      end == IF start = 0 THEN 0 ELSE BalancedEnd(text, start, 0)
  IN  IF start # 0 /\ end > start THEN SubSeq(text, start, end) ELSE NoMatch

\* The end of the match of \{[^{}]*(?:\{[^{}]*\}[^{}]*)*\} that starts at s,
\* or 0.  inner: the position is inside a group of the pattern.
RECURSIVE SimpleEnd(_, _, _)
SimpleEnd(text, i, inner) ==
  IF i > Len(text) THEN 0
  ELSE IF text[i] = "{" THEN (IF inner THEN 0 ELSE SimpleEnd(text, i + 1, TRUE))
  ELSE IF text[i] = "}" THEN (IF inner THEN SimpleEnd(text, i + 1, FALSE) ELSE i)
  ELSE SimpleEnd(text, i + 1, inner)

\* re.search(r'\{[^{}]*(?:\{[^{}]*\}[^{}]*)*\}', text, re.DOTALL).group(0)
Simple(text) ==
  LET starts == {s \in 1..Len(text) :
                   text[s] = "{" /\ SimpleEnd(text, s + 1, FALSE) # 0}
  IN  IF starts = {} THEN NoMatch
      ELSE SubSeq(text, Least(starts), SimpleEnd(text, Least(starts) + 1, FALSE))

\* Lines 618-621: the first "{" to the last "}".
FirstToLast(text) ==
  LET start == find(text, "{")
      end == rfind(text, "}")
  IN  IF start # 0 /\ end # 0 /\ end > start THEN SubSeq(text, start, end)
      ELSE NoMatch

\* The try blocks: clean_json_text and json.loads of the text a strategy
\* found.  The result is the value, JSONDecodeError, or NoMatch.
Strategy(found) ==
  IF found = NoMatch THEN NoMatch ELSE json_loads(clean_json_text(found))

Failed(r) == r = NoMatch \/ r = JSONDecodeError

\* safe_parse_json whose second strategy has no try: the exception leaves
\* the function.
safe_parse_json_NoCatch(raw) ==
  IF Len(raw) = 0 THEN None
  ELSE LET text == strip(raw)
           s1a == Strategy(CodeBlock(text, TRUE))
           s1b == Strategy(CodeBlock(text, FALSE))
           s2 == Strategy(Balanced(text))
           s3 == Strategy(Simple(text))
           s4 == Strategy(FirstToLast(text))
       IN  IF ~Failed(s1a) THEN s1a
           ELSE IF ~Failed(s1b) THEN s1b
           ELSE IF s2 = JSONDecodeError THEN Raised
           ELSE IF ~Failed(s2) THEN s2
           ELSE IF ~Failed(s3) THEN s3
           ELSE IF ~Failed(s4) THEN s4
           ELSE None

safe_parse_json(raw) ==
  IF Len(raw) = 0 THEN None
  ELSE LET text == strip(raw)
           s1a == Strategy(CodeBlock(text, TRUE))
           s1b == Strategy(CodeBlock(text, FALSE))
           s2 == Strategy(Balanced(text))
           s3 == Strategy(Simple(text))
           s4 == Strategy(FirstToLast(text))
       IN  IF ~Failed(s1a) THEN s1a
           ELSE IF ~Failed(s1b) THEN s1b
           ELSE IF ~Failed(s2) THEN s2
           ELSE IF ~Failed(s3) THEN s3
           ELSE IF ~Failed(s4) THEN s4
           ELSE None

lang_prefix(language) ==
  CASE language = "hindi" -> "HN"
    [] language = "english" -> "EN"
    [] language = "code_mixed" -> "CM"
    [] OTHER -> "HN"

\* f"{lang_prefix}_{bucket_key}_C{case_id:04d}_{idx:03d}": the two numbers are
\* written in decimal, padded to a minimum width and separated by "_", so
\* the text determines the four parts and the four parts the text.
DialogueId(language, bucket_key, case_id, idx) ==
  <<lang_prefix(language), bucket_key, case_id, idx>>

FallbackTurn(language, role) ==
  [py |-> "dict", role |-> role,
   text |-> <<"fallback", IF language \in Languages THEN language ELSE "hindi", role>>]

\* The fallback record with the pair of messages not repeated.
create_fallback_dialogue_OnePair(turns, complexity, bucket_key, idx, language, case_id) ==
  [py |-> "dict",
   dialogue_id |-> DialogueId(language, bucket_key, case_id, idx),
   language |-> language,
   complexity |-> complexity,
   turn_count |-> turns,
   turns |-> List(<<FallbackTurn(language, "user"), FallbackTurn(language, "assistant")>>),
   statutes_cited |-> List(<<>>)]

create_fallback_dialogue(turns, complexity, bucket_key, idx, language, case_id) ==
  [py |-> "dict",
   dialogue_id |-> DialogueId(language, bucket_key, case_id, idx),
   language |-> language,
   complexity |-> complexity,
   turn_count |-> turns,
   turns |-> List([i \in 1..(2 * turns) |->
                     IF i % 2 = 1 THEN FallbackTurn(language, "user")
                                  ELSE FallbackTurn(language, "assistant")]),
   statutes_cited |-> List(<<>>)]

\* isinstance(turn, dict) and "role" in turn and "text" in turn
\*   and turn["role"] in ["user", "assistant"]
ValidTurn(turn) ==
  /\ IsDict(turn)
  /\ Has(turn, "role")
  /\ Has(turn, "text")
  /\ turn["role"] \in {"user", "assistant"}

\* The loop over the turns with every turn appended.
FilterSeq_KeepAll(s) == s

RECURSIVE FilterSeq(_)
FilterSeq(s) ==
  IF Len(s) = 0 THEN <<>>
  ELSE IF ValidTurn(Head(s)) THEN <<Head(s)>> \o FilterSeq(Tail(s))
       ELSE FilterSeq(Tail(s))

\* Lines 772-790: defaults, removals and the fields generate_dialogue sets.
PrepareData(data, turns, bucket_key, idx, complexity, language, case_id) ==
  LET d1 == IF Has(data, "turns") THEN data ELSE SetKey(data, "turns", List(<<>>))
      d2 == IF Has(d1, "statutes_cited") THEN d1
            ELSE SetKey(d1, "statutes_cited", List(<<>>))
      d3 == IF Has(d2, "safety_notes") THEN DelKey(d2, "safety_notes") ELSE d2
      d4 == IF Has(d3, "case_summary") THEN DelKey(d3, "case_summary") ELSE d3
      d5 == SetKey(d4, "dialogue_id", DialogueId(language, bucket_key, case_id, idx))
      d6 == SetKey(d5, "language", Get(d5, "language", language))
      d7 == SetKey(d6, "complexity", Get(d6, "complexity", complexity))
      d8 == SetKey(d7, "turn_count", Get(d7, "turn_count", turns))
  IN  SetKey(d8, "bucket", bucket_key)

\* Turn validation without the check that a valid turn is left.
ValidateTurns_KeepEmpty(d) ==
  IF ~Truthy(d["turns"]) THEN None
  ELSE IF d["turns"].py # "list" THEN Raised
  ELSE SetKey(d, "turns", List(FilterSeq(d["turns"].items)))

\* Lines 792-811: what is returned for a parsed, non-empty object.
ValidateTurns(d) ==
  IF ~Truthy(d["turns"]) THEN None
  ELSE IF d["turns"].py # "list" THEN Raised      \* len() of a number raises
  ELSE LET valid_turns == FilterSeq(d["turns"].items)
       IN  IF Len(valid_turns) = 0 THEN None
           ELSE SetKey(d, "turns", List(valid_turns))

\* ---- generate_via_openrouter ----
\* max_retries: int = 2, and the call at line 759 passes none.
DefaultMaxRetries_OneMore == 2 + 1
DefaultMaxRetries == 2

\* What one request gives: a response with non-empty content (one of two
\* texts), a response whose content is empty, a response without choices, a
\* requests.exceptions.RequestException (transport, HTTP status), or another
\* exception while the response is read.
RequestOutcomes ==
  {"content_x", "content_y", "empty_content", "no_choices", "request_exception",
   "other_exception"}

ContentOf(outcome) == Str(<<IF outcome = "content_x" THEN "{" ELSE "a">>)

\* One pass of the loop body without the handler of line 737: an exception
\* that is no RequestException leaves the function.
RequestPass_NoHandler(outcome, attempt, max_retries) ==
  CASE outcome \in {"content_x", "content_y"} ->
         [do |-> "return", value |-> ContentOf(outcome)]
    [] outcome = "empty_content" -> [do |-> "next"]
    [] outcome = "other_exception" -> [do |-> "return", value |-> Raised]
    [] OTHER ->
         IF attempt < max_retries THEN [do |-> "next"]
         ELSE [do |-> "return", value |-> None]

\* The pass that returns the content only when it is the last one.
RequestPass_ContentOnLastPass(outcome, attempt, max_retries) ==
  IF attempt < max_retries THEN [do |-> "next"]
  ELSE IF outcome \in {"content_x", "content_y"}
       THEN [do |-> "return", value |-> ContentOf(outcome)]
       ELSE [do |-> "return", value |-> None]

\* One pass of the loop body (lines 690-746) for the outcome of its request:
\* return a value, or go to the next pass (continue, or the end of the body
\* when the content is empty on the last pass).
RequestPass(outcome, attempt, max_retries) ==
  CASE outcome \in {"content_x", "content_y"} ->
         [do |-> "return", value |-> ContentOf(outcome)]
    [] outcome = "empty_content" -> [do |-> "next"]
    [] OTHER ->
         IF attempt < max_retries THEN [do |-> "next"]
         ELSE [do |-> "return", value |-> None]

\* for attempt in range(max_retries + 1), from pass `attempt` on, and the
\* return None of line 748.  requests: the requests sent so far.
RECURSIVE RequestLoop(_, _, _)
RequestLoop(outcomes, attempt, max_retries) ==
  IF attempt >= max_retries + 1 THEN [ret |-> None, requests |-> attempt]
  ELSE LET p == RequestPass(outcomes[attempt + 1], attempt, max_retries)
       IN  IF p.do = "return" THEN [ret |-> p.value, requests |-> attempt + 1]
           ELSE RequestLoop(outcomes, attempt + 1, max_retries)

\* api_session is the requests.Session of line 129, which is true.
generate_via_openrouter(outcomes, max_retries) == RequestLoop(outcomes, 0, max_retries)

\* generate_dialogue without the fallback branch: a text that gives no object
\* gives no record.
generate_dialogue_NoFallback(has_output, data, turns, bucket_key, idx, complexity, language, case_id) ==
  IF ~has_output THEN None
  ELSE IF Truthy(data) /\ IsDict(data)
       THEN ValidateTurns(PrepareData(data, turns, bucket_key, idx, complexity,
                                      language, case_id))
       ELSE None

\* generate_dialogue.  has_output: generate_via_openrouter returned text;
\* data: what safe_parse_json returns for that text (None or a dict);
\* turns: the value random.randint(min_t, max_t) drew.  The result is a dict,
\* None, or Raised when the call raises.
generate_dialogue(has_output, data, turns, bucket_key, idx, complexity, language, case_id) ==
  IF ~has_output THEN None
  ELSE IF Truthy(data) /\ IsDict(data)
       THEN ValidateTurns(PrepareData(data, turns, bucket_key, idx, complexity,
                                      language, case_id))
       ELSE create_fallback_dialogue(turns, complexity, bucket_key, idx, language,
                                     case_id)

\* The values drawn for what safe_parse_json returns.
UserTurn == [py |-> "dict", role |-> "user", text |-> "q"]
AssistantTurn == [py |-> "dict", role |-> "assistant", text |-> "a"]
NoRoleTurn == [py |-> "dict", text |-> "x"]
NoTextTurn == [py |-> "dict", role |-> "user"]
SystemTurn == [py |-> "dict", role |-> "system", text |-> "s"]
StringTurn == [py |-> "str"]

InvalidTurnsDict ==
  [py |-> "dict", turns |-> List(<<NoRoleTurn, SystemTurn, StringTurn, NoTextTurn>>)]
NumberTurnsDict == [py |-> "dict", turns |-> PyInt(5)]
\* An object that declares its own language, complexity, bucket and case_id
\* and has well-formed and malformed turns.
DeclaringDict ==
  [py |-> "dict", dialogue_id |-> <<>>, language |-> "hinglish",
   complexity |-> "expert", turn_count |-> 9, bucket |-> "Z", case_id |-> 0,
   safety_notes |-> "n", case_summary |-> "c",
   turns |-> List(<<UserTurn, NoRoleTurn, AssistantTurn, SystemTurn>>),
   statutes_cited |-> List(<<"s">>)]

\* Well-formed turns between malformed ones, an assistant turn first.
MixedTurnsDict ==
  [py |-> "dict",
   turns |-> List(<<AssistantTurn, StringTurn, UserTurn, NoTextTurn, UserTurn>>)]

ParseResults ==
  { None,
    MixedTurnsDict,
    EmptyDict,
    [py |-> "dict", statutes_cited |-> List(<<>>)],
    [py |-> "dict", language |-> "hinglish", turns |-> List(<<>>)],
    InvalidTurnsDict,
    NumberTurnsDict,
    [py |-> "dict", turns |-> List(<<UserTurn, AssistantTurn>>)],
    DeclaringDict }

\* What one call of the generation client and the parser gives to the main
\* loop: no output, or a text with one of these parse results (one for each
\* way generate_dialogue can end).
Responses ==
  {[has_output |-> FALSE, data |-> None]}
    \cup {[has_output |-> TRUE, data |-> d] :
            d \in {None, InvalidTurnsDict, NumberTurnsDict, DeclaringDict}}

BucketTurns(bucket_key) == BUCKETS[bucket_key][1]..BUCKETS[bucket_key][2]

\* ------------------------------------------------------------------------
\* The output file
\* ------------------------------------------------------------------------
\* The keys of a record the model keeps of its line in the file.
LineKeys == {"py", "dialogue_id", "language", "complexity", "bucket", "case_id"}

\* json.dumps(result, ensure_ascii=False): the complete text of one record.
JsonLine(rec) == [kind |-> "rec", obj |-> [k \in DOMAIN rec \cap LineKeys |-> rec[k]]]
\* A proper, non-empty prefix of that text: no JSON value.
JunkLine == [kind |-> "junk"]
\* A prefix of its bytes that stops inside a multi-byte character.
BadUtfLine == [kind |-> "badutf"]

\* Text written to a file opened for appending goes behind the last byte:
\* when the last line has no newline the new text continues that line, and
\* text in front of a complete JSON value is no JSON value.
AppendText(f, open, piece) ==
  IF open /\ Len(f) > 0
  THEN [f EXCEPT ![Len(f)] =
          IF piece.kind = "badutf" \/ @.kind = "badutf" THEN BadUtfLine ELSE JunkLine]
  ELSE Append(f, piece)

\* ------------------------------------------------------------------------
\* RESUME SUPPORT
\* ------------------------------------------------------------------------
ZeroCounts(l) == [k \in DOMAIN DISTRIBUTION_FILTERED(l) |-> 0]

\* One pass of the body of `for line in rf` (lines 882-899).  st holds
\* distribution_counts, max_case_id_seen and whether an exception left the
\* loop; reading a line that cannot be decoded raises.
ReplayLine(st, line, l) ==
  IF st.raised THEN st
  ELSE IF line.kind = "badutf" THEN [st EXCEPT !.raised = TRUE]
  ELSE IF line.kind = "junk" THEN st
  ELSE LET obj == line.obj
           counted ==
             /\ Has(obj, "complexity") /\ InSeq(obj["complexity"], COMPLEXITY_LEVELS)
             /\ Has(obj, "bucket") /\ obj["bucket"] \in DOMAIN BUCKETS
             /\ <<l, obj["complexity"], obj["bucket"]>> \in DOMAIN st.counts
           key == <<l, obj["complexity"], obj["bucket"]>>
           c1 == IF counted THEN [st.counts EXCEPT ![key] = @ + 1] ELSE st.counts
           m1 == IF Has(obj, "case_id") /\ obj["case_id"] > st.max_case_id_seen
                 THEN obj["case_id"] ELSE st.max_case_id_seen
       IN  [counts |-> c1, max_case_id_seen |-> m1, raised |-> FALSE]

RECURSIVE ReplayFrom(_, _, _, _)
ReplayFrom(st, f, i, l) ==
  IF i > Len(f) THEN st ELSE ReplayFrom(ReplayLine(st, f[i], l), f, i + 1, l)

Replay(f, l) ==
  ReplayFrom([counts |-> ZeroCounts(l), max_case_id_seen |-> 0, raised |-> FALSE],
             f, 1, l)

\* Lines 902-904.
NextCaseIdx(max_case_id_seen, case_start) ==
  IF max_case_id_seen < case_start THEN case_start ELSE max_case_id_seen

\* ------------------------------------------------------------------------
\* MAIN LOOP: helpers
\* ------------------------------------------------------------------------
\* Lines 934-939: the first key, in declaration order, below its target.
RECURSIVE FirstBelow(_, _, _)
FirstBelow(counts, order, i) ==
  IF i > Len(order) THEN None
  ELSE IF counts[order[i]] < DISTRIBUTION[order[i]] THEN [py |-> "tuple", key |-> order[i]]
       ELSE FirstBelow(counts, order, i + 1)

\* The selection with <= in place of <.
RECURSIVE FirstAtOrBelow(_, _, _)
FirstAtOrBelow(counts, order, i) ==
  IF i > Len(order) THEN None
  ELSE IF counts[order[i]] <= DISTRIBUTION[order[i]] THEN [py |-> "tuple", key |-> order[i]]
       ELSE FirstAtOrBelow(counts, order, i + 1)

\* The selection that scans the keys from the last to the first.
RECURSIVE LastBelow(_, _, _)
LastBelow(counts, order, i) ==
  IF i < 1 THEN None
  ELSE IF counts[order[i]] < DISTRIBUTION[order[i]] THEN [py |-> "tuple", key |-> order[i]]
       ELSE LastBelow(counts, order, i - 1)

NextCombo_LastBelow(counts, l) == LastBelow(counts, CellOrder(l), Len(CellOrder(l)))

NextCombo_AtOrBelow(counts, l) == FirstAtOrBelow(counts, CellOrder(l), 1)

NextCombo(counts, l) == FirstBelow(counts, CellOrder(l), 1)

\* The record as generate_dialogue returned it, its own fields trusted.
Finalize_Trusting(rec, l, complexity, bucket, case_number) == rec

\* Lines 982-985: the scheduled values overwrite what the record holds.
Finalize(rec, l, complexity, bucket, case_number) ==
  SetKey(SetKey(SetKey(SetKey(rec, "language", l), "complexity", complexity),
                "bucket", bucket), "case_id", case_number)

\* The counters left as they are.
CountRecord_Skip(counts, combo) == counts

\* Lines 988-989.
CountRecord(counts, combo) == [counts EXCEPT ![combo] = @ + 1]

\* ------------------------------------------------------------------------
\* State
\* ------------------------------------------------------------------------
VARIABLES
  CURRENT_LANGUAGE,      \* GENERATE_LANGUAGE, validated
  num_cases,             \* len(CASES)
  file,                  \* the lines of output_file
  open_tail,             \* the last line of output_file has no newline
  distribution_counts,
  case_indices,          \* case_indices[CURRENT_LANGUAGE]
  resume_existing,
  total_generated,
  next_combo, current_count, case_idx, attempt, result,
  pc,                    \* where the process is
  torn_writes,           \* how many kills hit a write under way
  call,                  \* the arguments of a call of a function on its own,
                         \* the environment a start of the program finds, or
                         \* the requests of the iteration under way
  started_empty,         \* this run found no output file, or an empty one
  opened,                \* the modes this run has opened output_file with
  requests_sent          \* this run has called api_session.post

vars == <<CURRENT_LANGUAGE, num_cases, file, open_tail, distribution_counts,
          case_indices, resume_existing, total_generated, next_combo,
          current_count, case_idx, attempt, result, pc, torn_writes, started_empty, call,
          opened, requests_sent>>

case_start == CASE_RANGES(CURRENT_LANGUAGE)[1]
case_end == CASE_RANGES(CURRENT_LANGUAGE)[2]

\* The corpora the loader may have produced: none of the cases, or enough
\* for the range of every language.
CorpusSizes == {0, Len(LanguageNames) * RangeLen}

\* The process at line 867: configuration read, cases loaded, counters new.
AtStart ==
  /\ distribution_counts = ZeroCounts(CURRENT_LANGUAGE)
  /\ case_indices = case_start
  /\ resume_existing = FALSE
  /\ total_generated = 0
  /\ next_combo = None
  /\ current_count = 0
  /\ case_idx = 0
  /\ attempt = 0
  /\ result = None
  /\ started_empty = FALSE
  /\ opened = {}
  /\ requests_sent = FALSE
  /\ pc = "startup"

Init ==
  /\ CURRENT_LANGUAGE \in Languages
  /\ num_cases \in CorpusSizes
  /\ file = <<>>
  /\ open_tail = FALSE
  /\ torn_writes = 0
  /\ call = None
  /\ AtStart

\* The start with file_mode "w" whatever the replay found.
Startup_AlwaysWrite ==
  /\ pc = "startup"
  /\ LET exists == Len(file) > 0
         st == Replay(file, CURRENT_LANGUAGE)
         resumed == exists /\ ~st.raised
     IN  /\ started_empty' = ~exists
         /\ distribution_counts' = IF exists THEN st.counts ELSE distribution_counts
         /\ case_indices' = IF resumed
                            THEN NextCaseIdx(st.max_case_id_seen, case_start)
                            ELSE case_indices
         /\ resume_existing' = resumed
         /\ file' = <<>>
         /\ open_tail' = FALSE
         /\ total_generated' = SumCounts(distribution_counts', CURRENT_LANGUAGE)
         /\ opened' = (IF exists THEN {"r"} ELSE {}) \cup {"w"}
  /\ pc' = "loop"
  /\ UNCHANGED <<requests_sent, call, CURRENT_LANGUAGE, num_cases, next_combo, current_count, case_idx,
                 attempt, result, torn_writes>>

\* Lines 876-928: replay of an existing file, choice of the file mode, open,
\* total_generated.
Startup ==
  /\ pc = "startup"
  /\ LET exists == Len(file) > 0
         st == Replay(file, CURRENT_LANGUAGE)
         resumed == exists /\ ~st.raised
     IN  /\ started_empty' = ~exists
         /\ distribution_counts' = IF exists THEN st.counts ELSE distribution_counts
         /\ case_indices' = IF resumed
                            THEN NextCaseIdx(st.max_case_id_seen, case_start)
                            ELSE case_indices
         /\ resume_existing' = resumed
         \* file_mode "a" keeps the file, "w" empties it
         /\ file' = IF resumed THEN file ELSE <<>>
         /\ open_tail' = IF resumed THEN open_tail ELSE FALSE
         /\ total_generated' = SumCounts(distribution_counts', CURRENT_LANGUAGE)
         \* open(output_file, "r") of line 881, open(output_file, file_mode)
         /\ opened' = (IF exists THEN {"r"} ELSE {})
                         \cup {IF resumed THEN "a" ELSE "w"}
  /\ pc' = "loop"
  /\ UNCHANGED <<requests_sent, call, CURRENT_LANGUAGE, num_cases, next_combo, current_count, case_idx,
                 attempt, result, torn_writes>>

\* Lines 932-943 when the loop ends: the while condition fails or no key is
\* below its target.
LoopExit ==
  /\ pc = "loop"
  /\ \/ ~(total_generated < TARGET_SAMPLES)
     \/ NextCombo(distribution_counts, CURRENT_LANGUAGE) = None
  /\ pc' = "done"
  /\ UNCHANGED <<opened, requests_sent, call, CURRENT_LANGUAGE, num_cases, file, open_tail, distribution_counts,
                 case_indices, resume_existing, total_generated, next_combo,
                 current_count, case_idx, attempt, result, torn_writes, started_empty>>

\* The selection with the pointer advanced on both branches of line 955.
SelectCell_AlwaysAdvance ==
  /\ pc = "loop"
  /\ total_generated < TARGET_SAMPLES
  /\ NextCombo(distribution_counts, CURRENT_LANGUAGE) # None
  /\ next_combo' = NextCombo(distribution_counts, CURRENT_LANGUAGE)
  /\ current_count' = distribution_counts[next_combo'.key]
  /\ IF case_indices >= case_end
     THEN case_idx' \in case_start..(case_end - 1)
     ELSE case_idx' = case_indices
  /\ case_indices' = case_indices + 1
  /\ result' = None
  /\ attempt' = 0
  /\ pc' = "attempt"
  /\ UNCHANGED <<opened, requests_sent, call, CURRENT_LANGUAGE, num_cases, file, open_tail, distribution_counts,
                 resume_existing, total_generated, torn_writes, started_empty>>

\* Lines 932-962: selection of the key and of the case.
SelectCell ==
  /\ pc = "loop"
  /\ total_generated < TARGET_SAMPLES
  /\ NextCombo(distribution_counts, CURRENT_LANGUAGE) # None
  /\ next_combo' = NextCombo(distribution_counts, CURRENT_LANGUAGE)
  /\ current_count' = distribution_counts[next_combo'.key]
  /\ IF case_indices >= case_end
     THEN /\ case_idx' \in case_start..(case_end - 1)   \* random.randint
          /\ UNCHANGED case_indices
     ELSE /\ case_idx' = case_indices
          /\ case_indices' = case_indices + 1
  /\ result' = None
  /\ attempt' = 0
  /\ pc' = "attempt"
  /\ UNCHANGED <<opened, requests_sent, call, CURRENT_LANGUAGE, num_cases, file, open_tail, distribution_counts,
                 resume_existing, total_generated, torn_writes, started_empty>>

\* range(3) of line 963, with one pass more.
Attempts_OneMore == 3 + 1
\* range(3) of line 963: the passes of the attempt loop.
Attempts == 3

\* Lines 971-976: the value of result after the try statement of one pass.
\* CASES[case_idx] raises for an index the corpus does not have; every
\* exception gives result = None.
AttemptResult(resp, turns) ==
  LET g == IF case_idx >= num_cases THEN Raised
           ELSE generate_dialogue(resp.has_output, resp.data, turns,
                                  next_combo.key[3], total_generated + 1,
                                  next_combo.key[2], CURRENT_LANGUAGE,
                                  case_idx + 1)
  IN  IF g = Raised THEN None ELSE g

\* The pass with the counters updated before `if result:` is evaluated.
AttemptWith_CountsFirst(responses) ==
  /\ pc = "attempt"
  /\ requests_sent' = (requests_sent \/ case_idx < num_cases)
  /\ distribution_counts' = CountRecord(distribution_counts, next_combo.key)
  /\ total_generated' = total_generated + 1
  /\ \E resp \in responses, turns \in BucketTurns(next_combo.key[3]) :
       \E r \in {AttemptResult(resp, turns)} :
           IF Truthy(r)
           THEN /\ result' = Finalize(r, CURRENT_LANGUAGE, next_combo.key[2],
                                      next_combo.key[3], case_idx + 1)
                /\ pc' = "write"
                /\ UNCHANGED attempt
           ELSE /\ result' = r
                /\ IF attempt + 1 < Attempts
                   THEN pc' = "attempt" /\ attempt' = attempt + 1
                   ELSE pc' = "loop" /\ UNCHANGED attempt
  /\ UNCHANGED <<opened, call, CURRENT_LANGUAGE, num_cases, file, open_tail, case_indices,
                 resume_existing, next_combo, current_count, case_idx, torn_writes,
                 started_empty>>

\* Lines 963-989 and 1003-1005: one pass of `for attempt in range(3)` and,
\* when it gave a record, the success branch up to the counters.
\* CASES[case_idx] raises for an index the corpus does not have; every
\* exception gives result = None.
AttemptWith(responses) ==
  /\ pc = "attempt"
  \* generate_dialogue, once CASES[case_idx] has let it be called, calls the
  \* client
  /\ requests_sent' = (requests_sent \/ case_idx < num_cases)
  /\ \E resp \in responses, turns \in BucketTurns(next_combo.key[3]) :
       \E r \in {AttemptResult(resp, turns)} :
           IF Truthy(r)
           THEN /\ result' = Finalize(r, CURRENT_LANGUAGE, next_combo.key[2],
                                      next_combo.key[3], case_idx + 1)
                /\ distribution_counts' =
                     CountRecord(distribution_counts, next_combo.key)
                /\ total_generated' = total_generated + 1
                /\ pc' = "write"
                /\ UNCHANGED attempt
           ELSE /\ result' = r
                /\ UNCHANGED <<distribution_counts, total_generated>>
                /\ IF attempt + 1 < Attempts
                   THEN pc' = "attempt" /\ attempt' = attempt + 1
                   ELSE pc' = "loop" /\ UNCHANGED attempt
  /\ UNCHANGED <<opened, call, CURRENT_LANGUAGE, num_cases, file, open_tail, case_indices,
                 resume_existing, next_combo, current_count, case_idx, torn_writes,
                 started_empty>>

Attempt == AttemptWith(Responses)

\* Lines 992-994: the line, its newline, the flush.
Write ==
  /\ pc = "write"
  /\ file' = AppendText(file, open_tail, JsonLine(result))
  /\ open_tail' = FALSE
  /\ pc' = "loop"
  /\ UNCHANGED <<opened, requests_sent, call, CURRENT_LANGUAGE, num_cases, distribution_counts, case_indices,
                 resume_existing, total_generated, next_combo, current_count,
                 case_idx, attempt, result, torn_writes, started_empty>>

\* The process starts again on the same file: memory is new.
Restart ==
  /\ UNCHANGED <<call, CURRENT_LANGUAGE, num_cases>>
  /\ opened' = {}
  /\ requests_sent' = FALSE
  /\ distribution_counts' = ZeroCounts(CURRENT_LANGUAGE)
  /\ case_indices' = case_start
  /\ resume_existing' = FALSE
  /\ total_generated' = 0
  /\ next_combo' = None
  /\ current_count' = 0
  /\ case_idx' = 0
  /\ attempt' = 0
  /\ result' = None
  /\ started_empty' = FALSE
  /\ pc' = "startup"

\* The process is killed where no write is under way, and started again.
Kill ==
  /\ pc \in {"loop", "attempt", "write"}
  /\ Restart
  /\ UNCHANGED <<file, open_tail, torn_writes>>

\* The process is killed between line 992 and the end of the flush of line
\* 994, after some of the bytes of the line have reached the file: a prefix
\* of the JSON text, a prefix that stops inside a character, or all of the
\* JSON text without the newline.
KillInWrite ==
  /\ pc = "write"
  /\ torn_writes < MaxTornWrites
  /\ torn_writes' = torn_writes + 1
  /\ \E piece \in {JunkLine, BadUtfLine, JsonLine(result)} :
       file' = AppendText(file, open_tail, piece)
  /\ open_tail' = TRUE
  /\ Restart

\* The program is run again after a run that completed.
RunAgain ==
  /\ pc = "done"
  /\ Restart
  /\ UNCHANGED <<file, open_tail, torn_writes>>

Next ==
  \/ Startup
  \/ LoopExit
  \/ SelectCell
  \/ Attempt
  \/ Write
  \/ Kill
  \/ KillInWrite
  \/ RunAgain

Spec == Init /\ [][Next]_vars

\* ------------------------------------------------------------------------
\* The start of the program, from its first line: the environment is read
\* and checked, the cases are loaded, then the main program runs
\* ------------------------------------------------------------------------
Unset == ""

\* str.lower() for the values GENERATE_LANGUAGE is drawn from
Lower(value) ==
  CASE value = "HINDI" -> "hindi"
    [] value = "Code_Mixed" -> "code_mixed"
    [] OTHER -> value

\* os.getenv(name, default)
Getenv(value, default) == IF value = Unset THEN default ELSE value

\* A record of the first cell, as an earlier run wrote it.
EarlierRecord(l) ==
  [py |-> "dict", dialogue_id |-> DialogueId(l, "A", CASE_RANGES(l)[1] + 1, 1),
   language |-> l, complexity |-> "layman", bucket |-> "A",
   case_id |-> CASE_RANGES(l)[1] + 1]

\* What a start may find: the API key set or not, GENERATE_LANGUAGE, the
\* case file there or not, and an output file for each language.
Environments ==
  {[OPENROUTER_API_KEY |-> k, GENERATE_LANGUAGE |-> g, case_file_exists |-> e,
    output_files |-> o] :
      k \in {Unset, "sk"},
      g \in {Unset, "hindi", "english", "code_mixed", "HINDI", "Code_Mixed", "tamil"},
      e \in BOOLEAN,
      o \in {[l \in Languages |-> <<>>], [l \in Languages |-> <<JsonLine(EarlierRecord(l))>>]}}

InitBoot ==
  /\ call \in Environments
  /\ CURRENT_LANGUAGE = Unset
  /\ num_cases = 0
  /\ file = <<>>
  /\ open_tail = FALSE
  /\ torn_writes = 0
  /\ distribution_counts = <<>>
  /\ case_indices = 0
  /\ resume_existing = FALSE
  /\ total_generated = 0
  /\ next_combo = None
  /\ current_count = 0
  /\ case_idx = 0
  /\ attempt = 0
  /\ result = None
  /\ started_empty = FALSE
  /\ opened = {}
  /\ requests_sent = FALSE
  /\ pc = "config"

\* Lines 20-22.
CheckKey ==
  /\ pc = "config"
  /\ pc' = IF Getenv(call.OPENROUTER_API_KEY, "") = "" THEN "aborted" ELSE "language"
  /\ UNCHANGED <<opened, requests_sent, call, CURRENT_LANGUAGE, num_cases, file,
                 open_tail, distribution_counts, case_indices, resume_existing,
                 total_generated, next_combo, current_count, case_idx, attempt,
                 result, torn_writes, started_empty>>

\* Lines 41-45.  output_file (line 856) is the file of the language.
CheckLanguage ==
  /\ pc = "language"
  /\ CURRENT_LANGUAGE' = Lower(Getenv(call.GENERATE_LANGUAGE, "code_mixed"))
  /\ IF InSeq(CURRENT_LANGUAGE', LanguageNames)
     THEN pc' = "cases" /\ file' = call.output_files[CURRENT_LANGUAGE']
     ELSE pc' = "aborted" /\ UNCHANGED file
  /\ UNCHANGED <<opened, requests_sent, call, num_cases, open_tail,
                 distribution_counts, case_indices, resume_existing,
                 total_generated, next_combo, current_count, case_idx, attempt,
                 result, torn_writes, started_empty>>

\* The cases loaded without the check that the case file exists.
LoadCases_NoCheck ==
  /\ pc = "cases"
  /\ num_cases' \in CorpusSizes
  /\ distribution_counts' = ZeroCounts(CURRENT_LANGUAGE)
  /\ case_indices' = case_start
  /\ pc' = "startup"
  /\ UNCHANGED <<opened, requests_sent, call, CURRENT_LANGUAGE, file, open_tail,
                 resume_existing, total_generated, next_combo, current_count,
                 case_idx, attempt, result, torn_writes, started_empty>>

\* Lines 830-867: the case file is checked and read (os.makedirs and the
\* session of lines 117-134 come before and touch neither the output file
\* nor the network), the counters are made.
LoadCases ==
  /\ pc = "cases"
  /\ IF call.case_file_exists
     THEN /\ num_cases' \in CorpusSizes
          /\ distribution_counts' = ZeroCounts(CURRENT_LANGUAGE)
          /\ case_indices' = case_start
          /\ pc' = "startup"
     ELSE /\ pc' = "aborted"
          /\ UNCHANGED <<num_cases, distribution_counts, case_indices>>
  /\ UNCHANGED <<opened, requests_sent, call, CURRENT_LANGUAGE, file, open_tail,
                 resume_existing, total_generated, next_combo, current_count,
                 case_idx, attempt, result, torn_writes, started_empty>>

NextBoot ==
  \/ CheckKey
  \/ CheckLanguage
  \/ LoadCases
  \/ Startup
  \/ LoopExit
  \/ SelectCell
  \/ Attempt
  \/ Write

SpecBoot == InitBoot /\ [][NextBoot]_vars

\* ------------------------------------------------------------------------
\* The program started on an output file that it did not write itself
\* ------------------------------------------------------------------------
\* More records of the first cell than any cell's target.
OverfullFile(l) == [i \in 1..(BaseQuota + 2) |-> JsonLine(EarlierRecord(l))]

InitAnyFile ==
  /\ CURRENT_LANGUAGE \in Languages
  /\ num_cases = Len(LanguageNames) * RangeLen
  /\ file = OverfullFile(CURRENT_LANGUAGE)
  /\ open_tail = FALSE
  /\ torn_writes = 0
  /\ call = None
  /\ AtStart

SpecAnyFile == InitAnyFile /\ [][Next]_vars

\* ------------------------------------------------------------------------
\* The program with a generation client that returns, on every call, a
\* non-empty text from which safe_parse_json recovers no object
\* ------------------------------------------------------------------------
\* Prose with an opening brace that nothing closes.
GarbageText == <<"a", "w", "{", "a">>

GarbageResponses == {[has_output |-> TRUE, data |-> safe_parse_json(GarbageText)]}

AttemptGarbage == AttemptWith(GarbageResponses)

NextGarbage ==
  \/ Startup
  \/ LoopExit
  \/ SelectCell
  \/ AttemptGarbage
  \/ Write
  \/ Kill
  \/ KillInWrite
  \/ RunAgain

SpecGarbage == Init /\ [][NextGarbage]_vars

\* ------------------------------------------------------------------------
\* One run of the main program with a generation client that returns
\* well-formed dialogue output on every call, and a process that keeps
\* running: each statement reached is executed
\* ------------------------------------------------------------------------
WellFormedResponses ==
  {[has_output |-> TRUE, data |-> d] :
     d \in {[py |-> "dict", turns |-> List(<<UserTurn, AssistantTurn>>)],
            DeclaringDict}}

AttemptWellFormed == AttemptWith(WellFormedResponses)

NextWellFormed ==
  \/ Startup
  \/ LoopExit
  \/ SelectCell
  \/ AttemptWellFormed
  \/ Write

SpecWellFormed == Init /\ [][NextWellFormed]_vars /\ WF_vars(NextWellFormed)

\* ------------------------------------------------------------------------
\* One run of the main program with a generation client that gives no
\* output for the prompts of one cell (call names it) and well-formed
\* dialogue output for all others.  The run starts without output, or on a
\* file in which an earlier run has filled that cell.
\* ------------------------------------------------------------------------
StubbornCell(key) == [py |-> "tuple", key |-> key]

\* The records of one cell as an earlier run wrote them.
FilledCell(key) ==
  [i \in 1..DISTRIBUTION[key] |->
     JsonLine([py |-> "dict",
               dialogue_id |-> DialogueId(key[1], key[3], CASE_RANGES(key[1])[1] + 1, i),
               language |-> key[1], complexity |-> key[2], bucket |-> key[3],
               case_id |-> CASE_RANGES(key[1])[1] + 1])]

InitStubborn ==
  /\ CURRENT_LANGUAGE \in Languages
  /\ num_cases = Len(LanguageNames) * RangeLen
  /\ call \in {StubbornCell(k) : k \in DOMAIN DISTRIBUTION_FILTERED(CURRENT_LANGUAGE)}
  /\ file \in {<<>>, FilledCell(call.key)}
  /\ open_tail = FALSE
  /\ torn_writes = 0
  /\ AtStart

AttemptStubborn ==
  AttemptWith(IF next_combo.key = call.key
              THEN {[has_output |-> FALSE, data |-> None]}
              ELSE WellFormedResponses)

NextStubborn ==
  \/ Startup
  \/ LoopExit
  \/ SelectCell
  \/ AttemptStubborn
  \/ Write

SpecStubborn == InitStubborn /\ [][NextStubborn]_vars /\ WF_vars(NextStubborn)

\* ------------------------------------------------------------------------
\* One run of the main program with the requests of the generation client
\* followed one by one.  call holds, for the iteration under way, the
\* requests sent so far (sent), the requests of its last client call
\* (last_sent) and which request of that call was the first the endpoint
\* answered with non-empty content (first_content, 0 for none).
\* ------------------------------------------------------------------------
RequestLog(sent, last_sent, first_content) ==
  [py |-> "requests", sent |-> sent, last_sent |-> last_sent,
   first_content |-> first_content]

\* What safe_parse_json gives for a non-empty content: nothing, an object
\* without a valid turn, an object with valid turns.
ContentParses == {None, InvalidTurnsDict, DeclaringDict}

InitRequests ==
  /\ CURRENT_LANGUAGE \in Languages
  /\ num_cases \in CorpusSizes
  /\ file = <<>>
  /\ open_tail = FALSE
  /\ torn_writes = 0
  /\ call = RequestLog(0, 0, 0)
  /\ AtStart

\* Lines 963-989 and 1003-1005 with generate_via_openrouter (called at line
\* 759 once CASES[case_idx] has given the case) run on the outcomes of its
\* requests.
AttemptRequests ==
  /\ pc = "attempt"
  /\ \E outcomes \in [1..(DefaultMaxRetries + 1) -> RequestOutcomes],
        data \in ContentParses, turns \in BucketTurns(next_combo.key[3]) :
       LET called == case_idx < num_cases
           c == generate_via_openrouter(outcomes, DefaultMaxRetries)
           with == {i \in DOMAIN outcomes : outcomes[i] \in {"content_x", "content_y"}}
           before == IF attempt = 0 THEN 0 ELSE call.sent
       IN  /\ call' = IF called
                      THEN RequestLog(before + c.requests, c.requests,
                                      IF with = {} THEN 0 ELSE Least(with))
                      ELSE RequestLog(before, 0, 0)
           /\ requests_sent' = (requests_sent \/ called)
           /\ \E r \in {AttemptResult([has_output |-> called /\ c.ret # None,
                                        data |-> data], turns)} :
                IF Truthy(r)
                THEN /\ result' = Finalize(r, CURRENT_LANGUAGE, next_combo.key[2],
                                           next_combo.key[3], case_idx + 1)
                     /\ distribution_counts' =
                          CountRecord(distribution_counts, next_combo.key)
                     /\ total_generated' = total_generated + 1
                     /\ pc' = "write"
                     /\ UNCHANGED attempt
                ELSE /\ result' = r
                     /\ UNCHANGED <<distribution_counts, total_generated>>
                     /\ IF attempt + 1 < Attempts
                        THEN pc' = "attempt" /\ attempt' = attempt + 1
                        ELSE pc' = "loop" /\ UNCHANGED attempt
  /\ UNCHANGED <<opened, CURRENT_LANGUAGE, num_cases, file, open_tail, case_indices,
                 resume_existing, next_combo, current_count, case_idx, torn_writes,
                 started_empty>>

NextRequests ==
  \/ Startup
  \/ LoopExit
  \/ SelectCell
  \/ AttemptRequests
  \/ Write

SpecRequests == InitRequests /\ [][NextRequests]_vars

\* ------------------------------------------------------------------------
\* create_fallback_dialogue on its own: the arguments are drawn, the call is
\* made.  The language is one of the three or another text.
\* ------------------------------------------------------------------------
FallbackCalls ==
  { [turns |-> t, bucket_key |-> b, idx |-> 1, complexity |-> c,
     language |-> l, case_id |-> 1] :
      t \in 1..MaxExchanges, b \in DOMAIN BUCKETS,
      c \in {"layman", "intermediate", "professional"},
      l \in Languages \cup {"tamil"} }

InitFallback ==
  /\ call \in FallbackCalls
  /\ CURRENT_LANGUAGE = "hindi"
  /\ num_cases = 0
  /\ file = <<>>
  /\ open_tail = FALSE
  /\ torn_writes = 0
  /\ AtStart

CallCreateFallbackDialogue ==
  /\ pc = "startup"
  /\ result' = create_fallback_dialogue(call.turns, call.complexity, call.bucket_key,
                                        call.idx, call.language, call.case_id)
  /\ pc' = "returned"
  /\ UNCHANGED <<opened, requests_sent, call, CURRENT_LANGUAGE, num_cases, file, open_tail,
                 distribution_counts, case_indices, resume_existing,
                 total_generated, next_combo, current_count, case_idx, attempt,
                 torn_writes, started_empty>>

NextFallback == CallCreateFallbackDialogue

SpecFallback == InitFallback /\ [][NextFallback]_vars

\* ------------------------------------------------------------------------
\* generate_dialogue on its own: the arguments are drawn, the call is made
\* ------------------------------------------------------------------------
Calls ==
  { [has_output |-> h, data |-> d, turns |-> t, bucket_key |-> b, idx |-> 1,
     complexity |-> c, language |-> l, case_id |-> 1] :
      h \in BOOLEAN, d \in ParseResults, t \in 2..6,
      b \in DOMAIN BUCKETS, c \in {"layman", "intermediate", "professional"},
      l \in Languages }

InitGen ==
  /\ call \in {c \in Calls : c.turns \in BucketTurns(c.bucket_key)}
  /\ CURRENT_LANGUAGE = call.language
  /\ num_cases = 0
  /\ file = <<>>
  /\ open_tail = FALSE
  /\ torn_writes = 0
  /\ AtStart

CallGenerateDialogue ==
  /\ pc = "startup"
  /\ result' = generate_dialogue(call.has_output, call.data, call.turns,
                                 call.bucket_key, call.idx, call.complexity,
                                 call.language, call.case_id)
  /\ pc' = "returned"
  /\ UNCHANGED <<opened, requests_sent, call, CURRENT_LANGUAGE, num_cases, file, open_tail,
                 distribution_counts, case_indices, resume_existing,
                 total_generated, next_combo, current_count, case_idx, attempt,
                 torn_writes, started_empty>>

NextGen == CallGenerateDialogue

SpecGen == InitGen /\ [][NextGen]_vars

\* ------------------------------------------------------------------------
\* safe_parse_json on its own: a text is drawn, the call is made
\* ------------------------------------------------------------------------
SeqsUpTo(S, n) == UNION {[1..k -> S] : k \in 0..n}

\* What the strings of the objects hold.
StringBodies ==
  {<<>>, <<"a">>, <<"{">>, <<"}">>, <<",", "}">>, <<"}", "f">>, <<"c">>}

Leaves == {PyInt(1)} \cup {Str(b) : b \in StringBodies}

\* An object inside an object: empty, or with one member.
InnerObjects == {Obj(<<>>)} \cup {Obj(<<l>>) : l \in Leaves}

Objects == {Obj(ms) : ms \in SeqsUpTo(Leaves \cup InnerObjects, MaxMembers)}

\* The JSON text of a value, as json.dumps(v, separators=(",", ":")) gives it.
RECURSIVE Render(_)
RECURSIVE RenderMembers(_, _)
Render(v) ==
  CASE v.py = "int" -> [i \in 1..v.val |-> "a"]
    [] v.py = "str" -> <<"q">> \o v.chars \o <<"q">>
    [] v.py = "dict" ->
         <<"{">> \o (IF v = EmptyDict THEN <<>> ELSE RenderMembers(v.members, 1))
                 \o <<"}">>
RenderMembers(ms, i) ==
  IF i > Len(ms) THEN <<>>
  ELSE Render(ms[i]) \o (IF i < Len(ms) THEN <<",">> ELSE <<>>)
                     \o RenderMembers(ms, i + 1)

ObjectTexts == {Render(o) : o \in Objects}

\* Position i of the text is outside its strings.
OutsideStrings(text, i) ==
  Cardinality({x \in 1..(i - 1) : text[x] = "q"}) % 2 = 0

ClosingBraces(text) ==
  {i \in 1..Len(text) : text[i] = "}" /\ OutsideStrings(text, i)}

\* The text with a comma put in front of its closing brace at position i,
\* between ```json and ```, sep between the fences and the text.
Fenced(text, i, sep) ==
  <<"f", "j">> \o sep \o SubSeq(text, 1, i - 1) \o <<",">>
               \o SubSeq(text, i, Len(text)) \o sep \o <<"f">>

TextCalls ==
  {[kind |-> "text", text |-> t] : t \in SeqsUpTo(Alphabet, MaxTextLen) \cup ObjectTexts}

FenceCalls ==
  UNION {{[kind |-> "fence", text |-> t, at |-> i, sep |-> sep] :
             i \in ClosingBraces(t), sep \in {<<>>, <<"n">>}} : t \in ObjectTexts}

InitParse ==
  /\ call \in TextCalls \cup FenceCalls
  /\ CURRENT_LANGUAGE = "hindi"
  /\ num_cases = 0
  /\ file = <<>>
  /\ open_tail = FALSE
  /\ torn_writes = 0
  /\ AtStart

\* data = safe_parse_json(output)
CallSafeParseJson ==
  /\ pc = "startup"
  /\ call.kind = "text"
  /\ result' = safe_parse_json(call.text)
  /\ pc' = "returned"
  /\ UNCHANGED <<opened, requests_sent, call, CURRENT_LANGUAGE, num_cases, file, open_tail,
                 distribution_counts, case_indices, resume_existing,
                 total_generated, next_combo, current_count, case_idx, attempt,
                 torn_writes, started_empty>>

\* The two calls of safe_parse_json on an object's text: as it is, and
\* fenced with a trailing comma.
CallOnFencedAndBare ==
  /\ pc = "startup"
  /\ call.kind = "fence"
  /\ result' = [py |-> "pair",
                bare |-> safe_parse_json(call.text),
                fenced |-> safe_parse_json(Fenced(call.text, call.at, call.sep))]
  /\ pc' = "returned"
  /\ UNCHANGED <<opened, requests_sent, call, CURRENT_LANGUAGE, num_cases, file, open_tail,
                 distribution_counts, case_indices, resume_existing,
                 total_generated, next_combo, current_count, case_idx, attempt,
                 torn_writes, started_empty>>

NextParse == CallSafeParseJson \/ CallOnFencedAndBare

SpecParse == InitParse /\ [][NextParse]_vars

\* ------------------------------------------------------------------------
\* generate_via_openrouter on its own: the outcomes of its requests are
\* drawn, the call is made
\* ------------------------------------------------------------------------
ClientCalls ==
  {[outcomes |-> o, max_retries |-> m] :
      o \in [1..MaxRequests -> RequestOutcomes], m \in 0..DefaultMaxRetries}

InitClient ==
  /\ call \in {c \in ClientCalls : c.max_retries + 1 <= MaxRequests}
  /\ CURRENT_LANGUAGE = "hindi"
  /\ num_cases = 0
  /\ file = <<>>
  /\ open_tail = FALSE
  /\ torn_writes = 0
  /\ AtStart

\* output = generate_via_openrouter(prompt)
CallGenerateViaOpenrouter ==
  /\ pc = "startup"
  /\ result' = [py |-> "client"] @@ generate_via_openrouter(call.outcomes, call.max_retries)
  /\ pc' = "returned"
  /\ UNCHANGED <<opened, requests_sent, call, CURRENT_LANGUAGE, num_cases, file, open_tail,
                 distribution_counts, case_indices, resume_existing,
                 total_generated, next_combo, current_count, case_idx, attempt,
                 torn_writes, started_empty>>

NextClient == CallGenerateViaOpenrouter

SpecClient == InitClient /\ [][NextClient]_vars

\* ------------------------------------------------------------------------
\* Properties
\* ------------------------------------------------------------------------
Cells == DOMAIN DISTRIBUTION_FILTERED(CURRENT_LANGUAGE)

\* The line is a record of the cell: it parses, and its complexity and bucket
\* are the cell's.
RecordOf(line, cell) ==
  /\ line.kind = "rec"
  /\ Has(line.obj, "complexity") /\ line.obj["complexity"] = cell[2]
  /\ Has(line.obj, "bucket") /\ line.obj["bucket"] = cell[3]

PersistedCount(f, cell) == Cardinality({i \in 1..Len(f) : RecordOf(f[i], cell)})

PersistedTotal(f) ==
  Cardinality({i \in 1..Len(f) : \E cell \in Cells : RecordOf(f[i], cell)})

\* C1: when a run that found no output file (or an empty one) leaves the main
\* loop, the file holds for every quota cell of the active language exactly
\* as many records as the cell's target.
C1_FreshRunFillsEveryCell ==
  (pc = "done" /\ started_empty) =>
     \A cell \in Cells : PersistedCount(file, cell) = DISTRIBUTION[cell]

C1_Witness ==
  /\ pc = "done" /\ started_empty
  /\ Len(file) > 0
  /\ \E cell \in Cells : PersistedCount(file, cell) = BaseQuota + 1

\* C2: the targets of the active language's cells sum to TARGET_SAMPLES, so a
\* run to completion has persisted exactly TARGET_SAMPLES records.
C2_TargetsSumToTotal ==
  (pc = "done" /\ started_empty) =>
     /\ SumSeq(DISTRIBUTION, CellOrder(CURRENT_LANGUAGE)) = TARGET_SAMPLES
     /\ PersistedTotal(file) = TARGET_SAMPLES

\* C3: whatever kills and restarts came before, the run that leaves the main
\* loop leaves in the file exactly the target number of records per cell.
C3_ResumedRunsFillEveryCell ==
  pc = "done" =>
     \A cell \in Cells : PersistedCount(file, cell) = DISTRIBUTION[cell]

\* C4: a line of the file that is complete (it has its newline) is never
\* removed or altered by a later step.
C4_AppendOnly ==
  [][\A i \in 1..Len(file) :
        (i < Len(file) \/ ~open_tail) => (i <= Len(file') /\ file'[i] = file[i])]_vars

\* C5: when the main loop starts after startup on a non-empty file, the count
\* of each cell equals the number of records of the cell the file then holds.
C5_CountsEqualFileAfterReplay ==
  [][(pc = "startup" /\ Len(file) > 0 /\ pc' = "loop") =>
        \A cell \in Cells :
           distribution_counts'[cell] = PersistedCount(file', cell)]_vars

FieldIs(obj, k, v) == Has(obj, k) /\ obj[k] = v

\* C7: every record that reaches the file has the active language, the
\* selected cell's complexity and bucket and the 1-indexed number of the case
\* chosen in the iteration, whatever the model's output declared.
C7_AuthoritativeFields ==
  [][\A i \in 1..Len(file') :
        (file'[i].kind = "rec" /\ (i > Len(file) \/ file[i] # file'[i])) =>
           /\ FieldIs(file'[i].obj, "language", CURRENT_LANGUAGE)
           /\ FieldIs(file'[i].obj, "complexity", next_combo.key[2])
           /\ FieldIs(file'[i].obj, "bucket", next_combo.key[3])
           /\ FieldIs(file'[i].obj, "case_id", case_idx + 1)]_vars

\* The record written last came from an output that declared other values.
C7_Witness ==
  /\ pc = "loop"
  /\ Len(file) > 0
  /\ Has(result, "turn_count") /\ result["turn_count"] = 9
  /\ file[Len(file)] = JsonLine(result)
  /\ result["language"] = CURRENT_LANGUAGE

\* C8: no two records of the file carry the same dialogue_id.
C8_UniqueDialogueIds ==
  \A i, j \in 1..Len(file) :
     (i # j /\ file[i].kind = "rec" /\ file[j].kind = "rec") =>
        file[i].obj["dialogue_id"] # file[j].obj["dialogue_id"]

\* C9: every cell's count is at least 0 and at most its target.
C9_CountsWithinTargets ==
  \A cell \in Cells :
     /\ distribution_counts[cell] >= 0
     /\ distribution_counts[cell] <= DISTRIBUTION[cell]

\* A record is being generated for a cell while an earlier cell is full.
C9_Witness ==
  /\ pc = "attempt"
  /\ \E cell \in Cells :
       /\ cell # next_combo.key
       /\ distribution_counts[cell] = DISTRIBUTION[cell]
       /\ DISTRIBUTION[cell] > 0

\* The parsed object has no structurally valid turn: turns is missing, empty,
\* or a list without a well-formed entry.
ZeroValidTurns(d) ==
  /\ IsDict(d)
  /\ \/ ~Has(d, "turns")
     \/ /\ d["turns"].py = "list"
        /\ \A i \in 1..Len(d["turns"].items) :
              LET t == d["turns"].items[i]
              IN  ~(/\ t.py = "dict" /\ Has(t, "role") /\ Has(t, "text")
                    /\ t["role"] \in {"user", "assistant"})

IsFallbackFor(r, c) ==
  /\ IsDict(r)
  /\ r["turn_count"] = c.turns
  /\ r["language"] = c.language
  /\ Len(r["turns"].items) = 2 * c.turns

IsFallbackRecord(r) ==
  /\ IsDict(r)
  /\ Has(r, "turns") /\ Has(r, "turn_count")
  /\ r["turns"].py = "list"
  /\ Len(r["turns"].items) = 2 * r["turn_count"]
  /\ \A i \in 1..Len(r["turns"].items) :
        /\ r["turns"].items[i]["text"][1] = "fallback"
        /\ r["turns"].items[i]["role"] = (IF i % 2 = 1 THEN "user" ELSE "assistant")

\* C11 as stated: with a client that returns unparsable garbage on every
\* call, the selected cell's count stays what it was when the cell was
\* selected, the loop never terminates and no counter goes below zero.
C11_GarbageLeavesCellUnfilled ==
  /\ pc \in {"attempt", "write"} =>
        distribution_counts[next_combo.key] = current_count
  /\ pc # "done"
  /\ \A cell \in Cells : distribution_counts[cell] >= 0

\* C11 as amended: with a client that returns unparsable garbage on every
\* call, every call of generate_dialogue returns a fallback record, so each
\* iteration whose case the corpus holds ends at its first attempt with the
\* selected cell's count one higher; the loop terminates only with every
\* cell at its target, and no counter ever goes below zero.
C11_GarbageGivesFallback ==
  [][/\ (pc = "attempt" /\ pc' # "startup" /\ case_idx < num_cases) =>
          /\ attempt = 0
          /\ pc' = "write"
          /\ IsFallbackRecord(result')
          /\ distribution_counts'[next_combo.key] = current_count + 1
     /\ \A cell \in Cells : distribution_counts'[cell] >= 0
     /\ pc' = "done" =>
          \A cell \in Cells : distribution_counts'[cell] = DISTRIBUTION[cell]]_vars

\* A second fallback record of a cell is about to be written.
C11_Witness ==
  /\ pc = "write"
  /\ IsFallbackRecord(result)
  /\ current_count = 1
  /\ distribution_counts[next_combo.key] = 2

\* What the strategies give for the text, in the order they are tried.
StrategyResults(raw) ==
  LET text == strip(raw)
  IN  <<Strategy(CodeBlock(text, TRUE)), Strategy(CodeBlock(text, FALSE)),
        Strategy(Balanced(text)), Strategy(Simple(text)),
        Strategy(FirstToLast(text))>>

\* C12: safe_parse_json does not raise for any text; it returns the parsed
\* value of the first strategy whose text parses, and None when no strategy
\* finds a text that parses.
C12_ParserNeverRaises ==
  (pc = "returned" /\ call.kind = "text") =>
     LET rs == StrategyResults(call.text)
         good == {i \in 1..Len(rs) : rs[i] # NoMatch /\ rs[i] # JSONDecodeError}
     IN  /\ result # Raised
         /\ result # JSONDecodeError
         /\ result = None \/ IsDict(result)
         /\ good = {} => result = None
         /\ good # {} => result = rs[Least(good)]

\* Truncated JSON with an unbalanced brace in a string: the texts of
\* strategies 2 and 3 fail to parse and strategy 4 gives the object.
C12_Witness ==
  /\ pc = "returned" /\ call.kind = "text"
  /\ StrategyResults(call.text)[3] = JSONDecodeError
  /\ StrategyResults(call.text)[4] = JSONDecodeError
  /\ IsDict(result)

\* C13: for the text of a JSON object, safe_parse_json gives the same value
\* for the text between ```json fences with a trailing comma before a closing
\* brace as for the text as it is.
C13_FencedEqualsBare ==
  (pc = "returned" /\ call.kind = "fence") => result.fenced = result.bare

\* A well-formed entry of turns: a mapping with a role that is user or
\* assistant and with a text.
WellFormedTurn(t) ==
  /\ t.py = "dict"
  /\ "role" \in DOMAIN t /\ "text" \in DOMAIN t
  /\ t["role"] \in {"user", "assistant"}

\* The k-th smallest element of a set of numbers.
Nth(S, k) == CHOOSE x \in S : Cardinality({y \in S : y < x}) = k - 1

\* C14: when the turns list of the parsed object has a well-formed entry,
\* generate_dialogue returns the record, and its turns are the well-formed
\* entries of the list, all of them and in their order, and nothing else.
C14_WellFormedTurnsKept ==
  (/\ pc = "returned" /\ call.has_output
   /\ IsDict(call.data) /\ Has(call.data, "turns")
   /\ call.data["turns"].py = "list"
   /\ \E i \in 1..Len(call.data["turns"].items) :
         WellFormedTurn(call.data["turns"].items[i])) =>
     LET src == call.data["turns"].items
         wf == {i \in 1..Len(src) : WellFormedTurn(src[i])}
     IN  /\ IsDict(result)
         /\ result["turns"].py = "list"
         /\ Len(result["turns"].items) = Cardinality(wf)
         /\ \A k \in 1..Cardinality(wf) : result["turns"].items[k] = src[Nth(wf, k)]

\* Three well-formed turns were kept of five, the assistant's still first.
C14_Witness ==
  /\ pc = "returned" /\ call.has_output
  /\ call.data = MixedTurnsDict
  /\ IsDict(result)
  /\ result["turns"].items = <<AssistantTurn, UserTurn, UserTurn>>

\* C15 as stated: a call of the generation client with the default retry
\* budget sends at most two requests.
C15_AtMostTwoRequests ==
  (pc = "returned" /\ call.max_retries = DefaultMaxRetries) => result.requests <= 2

\* C15 as amended: a call of the generation client with the default retry
\* budget performs at most two retries, that is it sends at least one and at
\* most three requests, whatever the requests return.
C15_AtMostThreeRequests ==
  (pc = "returned" /\ call.max_retries = DefaultMaxRetries) =>
     /\ result.requests >= 1
     /\ result.requests <= 3

\* Three requests failed, each in another way.
C15_Witness ==
  /\ pc = "returned" /\ call.max_retries = DefaultMaxRetries
  /\ result.requests = 3
  /\ call.outcomes[1] = "request_exception"
  /\ call.outcomes[2] = "no_choices"
  /\ call.outcomes[3] = "empty_content"

\* C16: for every sequence of request outcomes generate_via_openrouter returns
\* the content of the first request that has non-empty content, if one of its
\* max_retries + 1 requests has, and None after the last request otherwise;
\* it raises nothing and returns no empty content.
C16_ContentOrNone ==
  pc = "returned" =>
     LET sent == 1..(call.max_retries + 1)
         with == {i \in sent : call.outcomes[i] \in {"content_x", "content_y"}}
     IN  /\ result.ret # Raised
         /\ with = {} => (result.ret = None /\ result.requests = call.max_retries + 1)
         /\ with # {} =>
              /\ result.ret = ContentOf(call.outcomes[Least(with)])
              /\ result.requests = Least(with)
              /\ Len(result.ret.chars) > 0

\* Another exception, then an empty content, then the second text.
C16_Witness ==
  /\ pc = "returned" /\ call.max_retries = 2
  /\ call.outcomes[1] = "other_exception"
  /\ call.outcomes[2] = "empty_content"
  /\ call.outcomes[3] = "content_y"
  /\ result.ret = Str(<<"a">>)

\* The output file of every language is as the start found it.
OutputFilesUntouched ==
  IF InSeq(CURRENT_LANGUAGE, LanguageNames)
  THEN file = call.output_files[CURRENT_LANGUAGE]
  ELSE file = <<>>

\* C17: when the API key is absent, the selected language (GENERATE_LANGUAGE
\* in lower case, code_mixed when it is not set) is none of the three, or the
\* case file is missing, the program does not get past its start: it stops
\* with an error, it has sent no request and it has not opened, created or
\* truncated the output file.
C17_AbortBeforeGeneration ==
  /\ (\/ call.OPENROUTER_API_KEY = Unset
      \/ ~InSeq(Lower(Getenv(call.GENERATE_LANGUAGE, "code_mixed")), LanguageNames)
      \/ ~call.case_file_exists) =>
        pc \in {"config", "language", "cases", "aborted"}
  /\ pc \in {"config", "language", "cases", "aborted"} =>
        (opened = {} /\ ~requests_sent /\ OutputFilesUntouched)

\* The case file is missing, the key and the language are fine and an
\* earlier run has left an output file.
C17_Witness ==
  /\ pc = "aborted"
  /\ ~call.case_file_exists
  /\ call.OPENROUTER_API_KEY # Unset
  /\ CURRENT_LANGUAGE = "hindi"
  /\ Len(file) > 0

\* C18: the main loop is left only with every cell's count equal to its
\* target, whatever output file the run started on.
C18_ExitOnlyWhenAllCellsFull ==
  pc = "done" => \A cell \in Cells : distribution_counts[cell] = DISTRIBUTION[cell]

\* The largest case_id among the lines of the file that parse, 0 without one.
LargestCaseId(f) ==
  LET ids == {f[i].obj["case_id"] :
                i \in {x \in 1..Len(f) : f[x].kind = "rec" /\ Has(f[x].obj, "case_id")}}
  IN  IF ids = {} THEN 0 ELSE Greatest(ids)

\* C19: after startup on a non-empty file the next-case pointer is the
\* larger of the start of the language's case range and the largest case_id
\* among the lines that parse; it is never below the range start, and a case
\* number assigned through the pointer is greater than every case_id in the
\* file.
C19_PointerIsLargestCaseId ==
  [][/\ (pc = "startup" /\ Len(file) > 0 /\ pc' = "loop") =>
          case_indices' = (IF LargestCaseId(file) > case_start
                           THEN LargestCaseId(file) ELSE case_start)
     /\ case_indices' >= case_start
     /\ (pc = "loop" /\ pc' = "attempt" /\ case_indices' = case_indices + 1) =>
          \A i \in 1..Len(file) :
             (file[i].kind = "rec" /\ Has(file[i].obj, "case_id")) =>
                case_idx' + 1 > file[i].obj["case_id"]]_vars

\* The place of a cell in the declaration order of the quota table.
PlaceOf(cell) ==
  CHOOSE i \in 1..Len(CellOrder(CURRENT_LANGUAGE)) : CellOrder(CURRENT_LANGUAGE)[i] = cell

PartlyFilled ==
  {cell \in Cells : /\ distribution_counts[cell] > 0
                    /\ distribution_counts[cell] < DISTRIBUTION[cell]}

\* C20: the cell selected is below its target and no cell before it in the
\* declaration order is; in a run that started without output, every cell
\* before it is exactly at its target and every cell after it is at 0, and
\* at no time is more than one cell partly filled.
C20_FirstUnfilledCellInOrder ==
  /\ pc = "attempt" =>
       /\ distribution_counts[next_combo.key] < DISTRIBUTION[next_combo.key]
       /\ distribution_counts[next_combo.key] = current_count
       /\ \A cell \in Cells :
            PlaceOf(cell) < PlaceOf(next_combo.key) =>
               distribution_counts[cell] >= DISTRIBUTION[cell]
       /\ started_empty =>
            \A cell \in Cells :
               /\ PlaceOf(cell) < PlaceOf(next_combo.key) =>
                    distribution_counts[cell] = DISTRIBUTION[cell]
               /\ PlaceOf(cell) > PlaceOf(next_combo.key) =>
                    distribution_counts[cell] = 0
  /\ (started_empty /\ pc \in {"loop", "attempt", "write", "done"}) =>
       Cardinality(PartlyFilled) <= 1

\* In a run that started without output the fifth cell is selected for its
\* second record.
C20_Witness ==
  /\ pc = "attempt" /\ started_empty
  /\ PlaceOf(next_combo.key) = 5
  /\ current_count = 1
  /\ PartlyFilled = {next_combo.key}

\* The case indices of the active language: case_start .. case_end - 1.
CaseRange == case_start..(case_end - 1)

\* C21: an iteration whose pointer is below the end of the range uses the
\* pointer's value and advances the pointer by one, and the attempts that
\* follow, failed or not, leave the pointer there; an iteration whose pointer
\* is at the end draws a case from the range and leaves the pointer alone.
\* The case used is always inside the range and the pointer never beyond its
\* end.
C21_CaseFromPointerOrRange ==
  /\ [](pc \in {"attempt", "write"} => case_idx \in CaseRange)
  /\ [](case_indices >= case_start /\ case_indices <= case_end)
  /\ [][(pc = "loop" /\ pc' = "attempt") =>
          IF case_indices < case_end
          THEN case_idx' = case_indices /\ case_indices' = case_indices + 1
          ELSE case_idx' \in CaseRange /\ case_indices' = case_indices]_vars
  /\ [][(pc \in {"attempt", "write"} /\ pc' \in {"attempt", "write", "loop"}) =>
          (case_indices' = case_indices /\ case_idx' = case_idx)]_vars

\* A run that started without output has written a record, so its pointer
\* has been used and is at the end of the range, and it has drawn the case
\* of a further iteration from the range.
C21_Witness ==
  /\ pc = "attempt" /\ started_empty
  /\ total_generated >= 1
  /\ case_indices = case_end
  /\ case_idx \in CaseRange

\* C29: whenever the attempt loop evaluates CASES[case_idx], case_idx is an
\* index the loaded case list has.
C29_CaseIndexInCorpus ==
  pc = "attempt" => (case_idx >= 0 /\ case_idx < num_cases)

AllCellsFull == \A cell \in Cells : distribution_counts[cell] = DISTRIBUTION[cell]

\* C22: with a client that returns well-formed dialogue output on every call,
\* the main loop ends with every cell at its target, whatever the number of
\* cases loaded.
C22_LoopEndsWithAllCellsFull == <>(pc = "done" /\ AllCellsFull)

\* The iteration that has just ended made all its attempts without a record.
AllAttemptsFailed ==
  /\ pc = "loop"
  /\ next_combo # None
  /\ attempt = Attempts - 1
  /\ ~Truthy(result)

\* C23: the selection and every attempt that gives no record leave the counts
\* of all cells, the running total and the output file as they were, so they
\* are the same after an iteration of failed attempts as before it.
C23_FailedIterationCountsNothing ==
  [][((pc = "loop" /\ pc' = "attempt")
        \/ (pc = "attempt" /\ pc' \in {"attempt", "loop"})) =>
       /\ distribution_counts' = distribution_counts
       /\ total_generated' = total_generated
       /\ file' = file /\ open_tail' = open_tail]_vars

\* An iteration has failed in a run that had counted and written a record.
C23_Witness ==
  /\ AllAttemptsFailed
  /\ total_generated >= 1
  /\ Len(file) >= 1
  /\ requests_sent

\* C25: an iteration makes its first attempt right after the selection and
\* at most 3 attempts in all, every one for the cell and the case index
\* selected; an attempt that gives a record is the last one; the iteration
\* ends without a record only after the third attempt; only the write that
\* follows a record changes the file, by at most one line.
C25_UpToThreeAttemptsOneRecord ==
  /\ [](attempt >= 0 /\ attempt < 3)
  /\ [][/\ (pc = "loop" /\ pc' = "attempt") => attempt' = 0
        /\ pc' = "write" => pc = "attempt"
        /\ (pc = "attempt" /\ pc' \in {"attempt", "write", "loop"}) =>
             (next_combo' = next_combo /\ case_idx' = case_idx)
        /\ (pc = "attempt" /\ pc' = "attempt") =>
             (attempt' = attempt + 1 /\ ~Truthy(result'))
        /\ (pc = "attempt" /\ pc' = "write") =>
             (attempt' = attempt /\ Truthy(result'))
        /\ (pc = "attempt" /\ pc' = "loop") =>
             (attempt = 2 /\ ~Truthy(result'))
        /\ pc \in {"loop", "attempt"} => file' = file
        /\ (pc = "write" /\ pc' = "loop") =>
             (Len(file') <= Len(file) + 1 /\ Len(file') >= Len(file))]_vars

\* The third attempt of an iteration gave the record.
C25_Witness ==
  /\ pc = "write"
  /\ attempt = 2
  /\ Truthy(result)

\* C24: the iteration that follows an iteration of failed attempts selects
\* the same cell and uses another case index than the one that failed.
C24_RetrySameCellNewCase ==
  [][(AllAttemptsFailed /\ pc' = "attempt") =>
       (next_combo' = next_combo /\ case_idx' # case_idx)]_vars

\* C26: with a client that fails for one cell on every call, the other
\* cells are still selected and filled: every cell but that one reaches its
\* target.
C26_OtherCellsAreFilled ==
  <>(\A cell \in Cells : cell # call.key => distribution_counts[cell] = DISTRIBUTION[cell])

\* C27: create_fallback_dialogue called with n >= 1 exchanges returns a
\* record with turn_count = n and 2n turns, user and assistant in turn from
\* a user turn on, with the language asked for and no statute cited.
C27_FallbackHasTwoTurnsPerExchange ==
  pc = "returned" =>
    /\ IsDict(result)
    /\ result["turn_count"] = call.turns
    /\ result["turns"].py = "list"
    /\ Len(result["turns"].items) = 2 * call.turns
    /\ \A i \in 1..Len(result["turns"].items) :
         result["turns"].items[i]["role"] = (IF i % 2 = 1 THEN "user" ELSE "assistant")
    /\ result["language"] = call.language
    /\ result["statutes_cited"] = List(<<>>)

\* The call with three exchanges in code_mixed has returned six turns.
C27_Witness ==
  /\ pc = "returned"
  /\ call.turns = 3
  /\ call.language = "code_mixed"
  /\ Len(result["turns"].items) = 6
  /\ result["turns"].items[6]["role"] = "assistant"

RECURSIVE SumOver(_, _)
SumOver(f, S) ==
  IF S = {} THEN 0
  ELSE LET x == CHOOSE y \in S : TRUE IN f[x] + SumOver(f, S \ {x})

\* C28: at the head of every iteration of the main loop the running total is
\* the sum of the counts of the cells of the active language, in runs that
\* started without output and in runs that started on a file.
C28_TotalIsSumOfCounts ==
  pc = "loop" => total_generated = SumOver(distribution_counts, Cells)

\* A run that replayed a file is at the head of an iteration after it has
\* itself counted a record.
C28_Witness ==
  /\ pc = "loop"
  /\ resume_existing
  /\ Truthy(result)
  /\ total_generated >= 2
  /\ total_generated < TARGET_SAMPLES

\* The file holds for every cell as many records as the cell's target.
FullFile == \A cell \in Cells : PersistedCount(file, cell) = DISTRIBUTION[cell]

\* C30: while the output file holds the target number of records for every
\* cell, no attempt is under way and no record about to be written; the start
\* of the program on such a file keeps the file, and no step changes the file
\* or sends a first request; from the head of the loop the run only ends.
C30_CompleteFileIsLeftAlone ==
  /\ [](FullFile => pc \in {"startup", "loop", "done"})
  /\ [][FullFile =>
          /\ file' = file /\ open_tail' = open_tail
          /\ requests_sent' => requests_sent
          /\ pc = "startup" => (pc' = "loop" /\ resume_existing' /\ "w" \notin opened')
          /\ pc = "loop" => pc' \in {"done", "startup"}]_vars

\* A run that started on a complete file has ended: it read the file, opened
\* it for appending and sent no request.
C30_Witness ==
  /\ pc = "done"
  /\ FullFile
  /\ resume_existing
  /\ opened = {"r", "a"}
  /\ ~requests_sent

\* C31: the attempts of one iteration send at most 9 requests in all, at
\* most 3 in each attempt; when an attempt gives a record, the last request
\* sent is the first one that returned non-empty content, and nothing is
\* sent while the record is written.
C31_AtMostNineRequestsPerIteration ==
  /\ [](pc \in {"attempt", "write", "loop"} =>
          /\ call.sent >= 0 /\ call.sent <= 9
          /\ call.last_sent <= 3)
  /\ [](pc = "write" =>
          /\ call.last_sent >= 1
          /\ call.first_content = call.last_sent)
  /\ [][(pc = "attempt" /\ attempt > 0) =>
          (call'.sent >= call.sent /\ call'.sent <= call.sent + 3)]_vars
  /\ [][(pc \in {"write", "loop"}) => (call' = call)]_vars

\* The ninth request of an iteration was the first of its attempt to return
\* content, and the content gave the record.
C31_Witness ==
  /\ pc = "write"
  /\ attempt = 2
  /\ call.sent = 9
  /\ call.first_content = 3
  /\ Truthy(result)

====
